---- MODULE Spec2Model ----
(***************************************************************************)
(* SimpleFS (src/src/fs.c over src/src/disk.c) as a state machine.         *)
(*                                                                         *)
(* A block is BLOCK_SIZE bytes, seen here as POINTERS_PER_BLOCK 32-bit     *)
(* words: the union Block of the source overlays the superblock (words     *)
(* 0..3), the inode array (8 words per inode) and the pointer array on the *)
(* same words, and the model keeps that overlay, because fs_load_inode     *)
(* reads block 0 as an inode block.  TLC's integers are 32 bits wide and   *)
(* signed, so a word is written as the int32 with the same bit pattern.    *)
(***************************************************************************)
EXTENDS Integers, Sequences, FiniteSets, TLC

VARIABLES disk, image, fs, heap, last, pc, formatted, before

vars == <<disk, image, fs, heap, last, pc, formatted, before>>

(* ------------------------------------------------------------------ *)
(* Constants of sfs/disk.h and sfs/fs.h                                *)
(* ------------------------------------------------------------------ *)
BLOCK_SIZE == 4096
\* 0xf0f03410 as an int32 bit pattern
MAGIC_NUMBER == -252693488
INODES_PER_BLOCK == 128
POINTERS_PER_INODE == 5
POINTERS_PER_BLOCK == 1024
DISK_FAILURE == -1
NULL == 0

\* F(v), with v evaluated once before F uses it
With(v, F(_)) == CHOOSE r \in {F(x) : x \in {v}} : TRUE

\* words of one inode record: sizeof(Inode) / sizeof(uint32_t)
INODE_WORDS == (BLOCK_SIZE \div INODES_PER_BLOCK) \div 4

(* ------------------------------------------------------------------ *)
(* Bounds of the model                                                 *)
(* ------------------------------------------------------------------ *)
\* the largest device: with 11 blocks the inode table has a second block
MaxBlocks == 11
\* the environment may fail one device call of an operation, among its
\* first MaxCalls
MaxCalls == 2
\* addresses malloc can hand out
MaxHeap == 2

\* the one device of the model; NULL is no device
Disks == {1}
\* the block counts the device is opened with: one block (no room for the
\* inode table), two (a tenth rounded up to one inode block, an empty data
\* region), a multiple of ten, and the largest
BlockCounts == {1, 2, MaxBlocks - 1, MaxBlocks}
\* the numbers of the device calls of one operation that fail in lseek,
\* read or write: none, or one of them
FaultSets == {{}} \cup {{k} : k \in 1 .. MaxCalls}
\* the same for the operations whose first device call decides the result
OneFault == {{}, {1}}
Addrs == 1 .. MaxHeap

(* ------------------------------------------------------------------ *)
(* Views of a block (union Block)                                      *)
(* ------------------------------------------------------------------ *)
\* A block is POINTERS_PER_BLOCK words.  It is stored as the word most of
\* it holds (fill) and the words that differ from it (ex), in the one form
\* where no word of ex equals fill, so that equal blocks are equal values.
Fill(v) == [fill |-> v, ex |-> [w \in {} |-> 0]]

\* block.pointers[w]
Word(blk, w) == IF w \in DOMAIN blk.ex THEN blk.ex[w] ELSE blk.fill

\* block.pointers[w] = v
SetWord(blk, w, v) ==
    [fill |-> blk.fill,
     ex |-> [x \in (DOMAIN blk.ex \cup {w}) \ (IF v = blk.fill THEN {w} ELSE {}) |->
                IF x = w THEN v ELSE blk.ex[x]]]

ZeroBlock == Fill(0)

\* a block of stale bytes: every word 7
StaleBlock == Fill(7)

\* block.super
SuperOf(blk) ==
    [magic_number |-> Word(blk, 0), blocks |-> Word(blk, 1),
     inode_blocks |-> Word(blk, 2), inodes |-> Word(blk, 3)]

\* block.inodes[j]
InodeOf(blk, j) ==
    [valid |-> Word(blk, INODE_WORDS * j),
     size |-> Word(blk, INODE_WORDS * j + 1),
     direct |-> [k \in 0 .. (POINTERS_PER_INODE - 1) |->
                    Word(blk, INODE_WORDS * j + 2 + k)],
     indirect |-> Word(blk, INODE_WORDS * j + 2 + POINTERS_PER_INODE)]

\* block.inodes[j].valid and block.inodes[j].direct[k]
ValidOf(blk, j) == Word(blk, INODE_WORDS * j)
DirectOf(blk, j, k) == Word(blk, INODE_WORDS * j + 2 + k)

\* the words of in.direct[k..] stored from word w on
RECURSIVE WithDirect(_, _, _, _)
WithDirect(blk, w, in, k) ==
    IF k >= POINTERS_PER_INODE THEN blk
    ELSE WithDirect(SetWord(blk, w, in.direct[k]), w + 1, in, k + 1)

\* block.inodes[j] = in
WithInode(blk, j, in) ==
    LET base == INODE_WORDS * j IN
    SetWord(WithDirect(SetWord(SetWord(blk, base, in.valid), base + 1, in.size),
                       base + 2, in, 0),
            base + 2 + POINTERS_PER_INODE, in.indirect)

\* block.super = sp, the other words of the block left as they are
WithSuper(blk, sp) ==
    SetWord(SetWord(SetWord(SetWord(blk, 0, sp.magic_number), 1, sp.blocks),
                    2, sp.inode_blocks), 3, sp.inodes)

(* ------------------------------------------------------------------ *)
(* disk.c                                                              *)
(* ------------------------------------------------------------------ *)
\* The address of a caller's block buffer: fs.c always passes the data of a
\* Block on its own stack, which is never NULL.
StackBuffer == 1

\* the check without its test of the data buffer
disk_sanity_check_any_data(d, block, data) ==
    /\ d # NULL
    /\ disk[d].fd >= 0
    /\ block >= 0
    /\ block < disk[d].blocks

disk_sanity_check(d, block, data) ==
    /\ d # NULL
    /\ disk[d].fd >= 0
    /\ block >= 0
    /\ block < disk[d].blocks
    /\ data # NULL

\* TRUE when call number c of the running operation returns DISK_FAILURE:
\* the sanity check refuses it, or lseek/read/write fails (c \in F)
disk_fails(d, block, c, F) ==
    \/ ~disk_sanity_check(d, block, StackBuffer)
    \/ c \in F

\* the tenth rounded down instead of up
CeilTenthFloor(n) == n \div 10

\* ceil(disk->blocks * 0.1) in double arithmetic.  0.1 is the double
\* 0.1 + 2^-55/5, so the product exceeds n/10 by less than half an ulp and
\* rounds to n/10 when 10 divides n; otherwise it lies strictly between two
\* integers.  Either way the result is the integer ceiling of n/10.
CeilTenth(n) == (n + 9) \div 10

(* ------------------------------------------------------------------ *)
(* Device images the model starts from                                 *)
(* ------------------------------------------------------------------ *)
\* the superblock fs_format computes for a device of n blocks
FormatSuper(n) ==
    [magic_number |-> MAGIC_NUMBER, blocks |-> n,
     inode_blocks |-> CeilTenth(n),
     inodes |-> CeilTenth(n) * INODES_PER_BLOCK]

NoDirect == [k \in 0 .. (POINTERS_PER_INODE - 1) |-> 0]

\* an image of n blocks that holds files: inode 0 (5 bytes, one block),
\* inode 1 (5 blocks and one byte, so an indirect block with one entry),
\* inode 3 (empty), inode 2 free, and inode 128 (empty) when the inode table
\* has a second block.  Data blocks hold recognisable words.
PopulatedImage(n) ==
    LET ib == CeilTenth(n)
        first == ib + 1
        ino0 == [valid |-> 1, size |-> 5,
                 direct |-> [k \in 0 .. (POINTERS_PER_INODE - 1) |->
                                IF k = 0 THEN first ELSE 0],
                 indirect |-> 0]
        ino1 == [valid |-> 1, size |-> BLOCK_SIZE * POINTERS_PER_INODE + 1,
                 direct |-> [k \in 0 .. (POINTERS_PER_INODE - 1) |-> first + 1 + k],
                 indirect |-> first + 1 + POINTERS_PER_INODE]
        empty == [valid |-> 1, size |-> 0, direct |-> NoDirect, indirect |-> 0]
        table1 == WithInode(WithInode(WithInode(ZeroBlock, 0, ino0), 1, ino1), 3, empty)
    IN  [b \in 0 .. (n - 1) |->
            IF b = 0 THEN WithSuper(ZeroBlock, FormatSuper(n))
            ELSE IF b = 1 THEN table1
            ELSE IF b = 2 /\ ib >= 2 THEN WithInode(ZeroBlock, 0, empty)
            ELSE IF b <= ib THEN ZeroBlock
            ELSE IF b = first + 1 + POINTERS_PER_INODE
                 THEN SetWord(ZeroBlock, 0, b + 1)
            ELSE Fill(100 + b)]

\* blocks a populated image needs: superblock, inode table, 8 data blocks
PopulatedFits(n) == n >= CeilTenth(n) + 2 + POINTERS_PER_INODE + 2

\* the images a device of n blocks may hold when it is opened: stale bytes
\* of an earlier use, or a filesystem with files
Images(n) ==
    {[b \in 0 .. (n - 1) |-> StaleBlock]}
    \cup (IF PopulatedFits(n) THEN {PopulatedImage(n)} ELSE {})

\* what an uninitialised Block on the stack may hold: zeroes, or what an
\* earlier call left there, here an inode block of a filesystem with files
LeftoverBlock == PopulatedImage(MaxBlocks - 1)[1]
GarbageBlocks == {ZeroBlock, LeftoverBlock}

\* inode numbers the callers pass
InodeArgs == {0, 1, 3, INODES_PER_BLOCK}

(* ------------------------------------------------------------------ *)
(* State                                                               *)
(* ------------------------------------------------------------------ *)
\* bool arrays are indexed from 0, as in C
NoArray == [i \in {} |-> FALSE]

ZeroSuper == [magic_number |-> 0, blocks |-> 0, inode_blocks |-> 0, inodes |-> 0]

\* the record of the last call: its name, arguments, return value (ret for
\* ssize_t, ok for bool) and the path it took through the code
\* what fs_debug prints: nothing, or the superblock lines and one
\* <<inode number, size, direct blocks>> per inode listed
NoOutput == [printed |-> FALSE, magic_valid |-> FALSE, super |-> ZeroSuper, inodes |-> {}]

Call(op, d, n, ret, ok, why) ==
    [op |-> op, d |-> d, n |-> n, len |-> 0, ret |-> ret, ok |-> ok, why |-> why,
     out |-> NoOutput]

\* a call that ended the process: a failed assert, a fault on a bad pointer
Abort(op, d, n, why) == Call(op, d, n, 0, FALSE, why)

\* disk_open has run on the device; the FileSystem handle is zeroed.
\* formatted is history, not program state: the devices on which fs_format
\* has run to its end since they were opened, none of its calls made while
\* the handle held the device (the caller keeps fs_format off a mounted
\* device). before is history as well: the content of the devices when the
\* last call was made.
Init ==
    /\ \E n \in BlockCounts :
         /\ disk = [d \in Disks |->
                       [fd |-> 3 + d,
                        blocks |-> n,
                        reads |-> 0, writes |-> 0]]
         /\ \E im \in Images(n) :
              image = [d \in Disks |-> im]
    /\ fs = [disk |-> NULL, meta_data |-> ZeroSuper, free_blocks |-> NULL]
    /\ heap = [a \in Addrs |-> [live |-> FALSE, arr |-> NoArray]]
    /\ last = Call("none", NULL, -1, 0, FALSE, "")
    /\ pc = "running"
    /\ formatted = {}
    /\ before = image

(* ------------------------------------------------------------------ *)
(* fs_format                                                           *)
(* ------------------------------------------------------------------ *)
\* the loop of lines 108-113 from block i on, call number c; the image and
\* whether every write succeeded
RECURSIVE FormatInodeBlocks(_, _, _, _, _, _)
FormatInodeBlocks(d, im, i, inodes, c, F) ==
    IF i > inodes THEN [im |-> im, done |-> TRUE]
    ELSE IF disk_fails(d, i, c, F) THEN [im |-> im, done |-> FALSE]
    ELSE FormatInodeBlocks(d, [im EXCEPT ![i] = ZeroBlock], i + 1, inodes, c + 1, F)

\* fs_format(fs, disk): pad is what the stack Block holds beside blk.super
\* when it is written to block 0
FormatOutcome(d, F, pad) ==
    LET inodes == CeilTenth(disk[d].blocks)
        sp == [magic_number |-> MAGIC_NUMBER, blocks |-> disk[d].blocks,
               inode_blocks |-> inodes, inodes |-> inodes * INODES_PER_BLOCK]
    IN  IF disk_fails(d, 0, 1, F)
        THEN [im |-> image[d], ret |-> FALSE, why |-> "write_super"]
        ELSE LET r == FormatInodeBlocks(d, [image[d] EXCEPT ![0] = WithSuper(pad, sp)],
                                        1, inodes, 2, F)
             IN  IF r.done
                 THEN [im |-> r.im, ret |-> FALSE, why |-> "done"]
                 ELSE [im |-> r.im, ret |-> FALSE, why |-> "write_inode"]

fs_format(d, F, pad) ==
    /\ pc = "running"
    /\ \E r \in {FormatOutcome(d, F, pad)} :
         /\ image' = [image EXCEPT ![d] = r.im]
         /\ last' = Call("format", d, -1, 0, r.ret, r.why)
         /\ formatted' = IF fs.disk = d THEN formatted \ {d}
                         ELSE IF r.why = "done" THEN formatted \cup {d}
                         ELSE formatted
    /\ UNCHANGED <<disk, fs, heap, pc>>
    /\ before' = image

(* ------------------------------------------------------------------ *)
(* fs_initialize_free_block_bitmap and fs_mount                        *)
(* ------------------------------------------------------------------ *)
\* malloc: the lowest address that is not live
HeapFull == \A a \in Addrs : heap[a].live
Malloc == CHOOSE a \in Addrs : ~heap[a].live /\ \A b \in Addrs : b < a => heap[b].live

\* the inode blocks the loop of lines 386-404 reads before it returns: all
\* of them, or those before the first read that fails (call numbers from c)
BlocksRead(d, sb, c, F) ==
    {i \in 1 .. sb.inode_blocks :
        \A k \in 1 .. i : ~disk_fails(d, k, c + k - 1, F)}

\* lines 393-403: the indices in.direct[ptr] - 1 - inode_blocks that the
\* loop stores TRUE at, over the valid inodes of the inode blocks in read
\* int idx = in.direct[ptr] - 1 - fs->meta_data.inode_blocks; the entry is
\* set to true for a block in use
MountIndex(sb, num) == num - 1 - sb.inode_blocks
MountMark == TRUE

MarkedIndices(d, sb, read) ==
    UNION {UNION {{MountIndex(sb, DirectOf(image[d][i], j, ptr)) :
                      ptr \in {p \in 0 .. (POINTERS_PER_INODE - 1) :
                                  DirectOf(image[d][i], j, p) # 0}} :
                  j \in {s \in 0 .. (INODES_PER_BLOCK - 1) :
                            ValidOf(image[d][i], s) # 0}} :
           i \in read}

\* the array fs_initialize_free_block_bitmap builds for device d under
\* superblock sb: built is FALSE when it returned at line 390, oob is TRUE
\* when a store fell outside the array
BuildBitmap(d, sb, c, F) ==
    LET data_blocks == sb.blocks - sb.inode_blocks
        read == BlocksRead(d, sb, c, F)
        Built(marked) ==
            [arr |-> [idx \in 0 .. (data_blocks - 1) |-> idx \in marked],
             oob |-> \E idx \in marked : idx \notin 0 .. (data_blocks - 1),
             built |-> read = 1 .. sb.inode_blocks]
    IN  With(MarkedIndices(d, sb, read), Built)

\* the heap once p is the only pointer into it: the content of an array
\* that nothing points to can no longer be read, and is not kept
Reachable(hp, p) ==
    [a \in Addrs |-> IF a = p THEN hp[a] ELSE [live |-> hp[a].live, arr |-> NoArray]]

\* fs_initialize_free_block_bitmap(fs) for the handle f, first call number c:
\* the handle and the heap after it.  The array is stored in the handle at
\* line 406 only; the return of line 390 leaves it allocated and unnamed.
fs_initialize_free_block_bitmap(f, c, F) ==
    LET a == Malloc
        Stored(bm) ==
            [fs |-> IF bm.built THEN [f EXCEPT !.free_blocks = a] ELSE f,
             heap |-> Reachable([heap EXCEPT ![a] = [live |-> TRUE, arr |-> bm.arr]],
                                IF bm.built THEN a ELSE f.free_blocks),
             built |-> bm.built, oob |-> bm.oob]
    IN  With(BuildBitmap(f.disk, f.meta_data, c, F), Stored)

\* fs_mount(fs, disk)
MountOutcome(d, F) ==
    IF disk_fails(d, 0, 1, F)
    THEN [fs |-> fs, heap |-> heap, ret |-> FALSE, why |-> "read_super", oob |-> FALSE]
    ELSE IF SuperOf(image[d][0]).magic_number # MAGIC_NUMBER
    THEN [fs |-> fs, heap |-> heap, ret |-> FALSE, why |-> "bad_magic", oob |-> FALSE]
    ELSE LET f == [fs EXCEPT !.disk = d, !.meta_data = SuperOf(image[d][0])]
             Returned(b) ==
                 [fs |-> b.fs, heap |-> b.heap, ret |-> FALSE,
                  why |-> IF b.built THEN "done" ELSE "bitmap_read", oob |-> b.oob]
         IN  With(fs_initialize_free_block_bitmap(f, 2, F), Returned)

\* A store outside the array (oob) is undefined: it ends the process, or
\* goes unnoticed and leaves the array as the stores inside it made it.
fs_mount(d, F) ==
    /\ pc = "running"
    /\ ~HeapFull
    /\ \E r \in {MountOutcome(d, F)} :
         \/ /\ r.oob
            /\ pc' = "aborted"
            /\ last' = Abort("mount", d, -1, "bitmap_store")
            /\ UNCHANGED <<fs, heap>>
         \/ /\ fs' = r.fs
            /\ heap' = r.heap
            /\ last' = Call("mount", d, -1, 0, r.ret, r.why)
            /\ pc' = pc
    /\ UNCHANGED <<disk, image, formatted>>
    /\ before' = image

(* ------------------------------------------------------------------ *)
(* fs_unmount                                                          *)
(* ------------------------------------------------------------------ *)
\* The asserts of the source are compiled in (nothing in it defines NDEBUG).
\* free() of an array already freed is undefined: it ends the process, or
\* goes unnoticed.
fs_unmount ==
    /\ pc = "running"
    /\ IF fs.free_blocks = NULL
       THEN /\ pc' = "aborted"
            /\ last' = Abort("unmount", NULL, -1, "assert_free_blocks")
            /\ UNCHANGED <<fs, heap>>
       ELSE \/ /\ ~heap[fs.free_blocks].live
               /\ pc' = "aborted"
               /\ last' = Abort("unmount", NULL, -1, "double_free")
               /\ UNCHANGED <<fs, heap>>
            \/ /\ heap' = [heap EXCEPT ![fs.free_blocks] =
                              [live |-> FALSE, arr |-> NoArray]]
               /\ fs' = [fs EXCEPT !.disk = NULL]
               /\ last' = Call("unmount", NULL, -1, 0, FALSE,
                               IF heap[fs.free_blocks].live THEN "done"
                               ELSE "double_free")
               /\ pc' = pc
    /\ UNCHANGED <<disk, image, formatted>>
    /\ before' = image

(* ------------------------------------------------------------------ *)
(* fs_debug                                                            *)
(* ------------------------------------------------------------------ *)
\* lines 46-59: the inodes of inode block i that fs_debug lists
ListedIn(blk, i) ==
    {<<(i - 1) * INODES_PER_BLOCK + j,
       InodeOf(blk, j).size,
       Cardinality({k \in 0 .. (POINTERS_PER_INODE - 1) : DirectOf(blk, j, k) # 0})>> :
        j \in {s \in 0 .. (INODES_PER_BLOCK - 1) : ValidOf(blk, s) = 1}}

\* fs_debug(disk): what it prints before it returns
DebugOutput(d, F) ==
    IF disk_fails(d, 0, 1, F) THEN NoOutput
    ELSE LET sb == SuperOf(image[d][0]) IN
         [printed |-> TRUE,
          magic_valid |-> sb.magic_number = MAGIC_NUMBER,
          super |-> sb,
          inodes |-> UNION {ListedIn(image[d][i], i) : i \in BlocksRead(d, sb, 2, F)}]

fs_debug(d, F) ==
    /\ pc = "running"
    /\ last' = [Call("debug", d, -1, 0, FALSE, "") EXCEPT !.out = DebugOutput(d, F)]
    /\ UNCHANGED <<disk, image, fs, heap, pc, formatted>>
    /\ before' = image

(* ------------------------------------------------------------------ *)
(* fs_create                                                           *)
(* ------------------------------------------------------------------ *)
\* the loop of fs_create with inode block i taken for device block i - 1,
\* the numbering fs_load_inode uses
RECURSIVE CreateFromBlockZero(_, _, _, _)
CreateFromBlockZero(i, c, F, blk) ==
    IF i > fs.meta_data.inode_blocks
    THEN [im |-> image[fs.disk], ret |-> -1, why |-> "no_free_inode"]
    ELSE IF ~disk_fails(fs.disk, i - 1, c, F)
    THEN [im |-> image[fs.disk], ret |-> -1,
          why |-> IF c = 1 THEN "read_succeeded" ELSE "later_read_succeeded"]
    ELSE LET free == {j \in 0 .. (INODES_PER_BLOCK - 1) : ValidOf(blk, j) = 0} IN
         IF free = {} THEN CreateFromBlockZero(i + 1, c + 1, F, blk)
         ELSE LET j == CHOOSE x \in free : \A y \in free : x <= y IN
              IF disk_fails(fs.disk, i - 1, c + 1, F)
              THEN [im |-> image[fs.disk], ret |-> -1, why |-> "write_failed"]
              ELSE [im |-> [image[fs.disk] EXCEPT
                               ![i - 1] = SetWord(blk, INODE_WORDS * j, 1)],
                    ret |-> (i - 1) * INODES_PER_BLOCK + j,
                    why |-> "created"]

\* lines 185-203 from inode block i on, call number c.  The test of line
\* 187 returns -1 when the read SUCCEEDS; when it fails the loop goes on
\* with the Block it never filled, whose content is blk.  Line 194 sets
\* valid and nothing else of the slot.
RECURSIVE CreateFrom(_, _, _, _)
CreateFrom(i, c, F, blk) ==
    IF i > fs.meta_data.inode_blocks
    THEN [im |-> image[fs.disk], ret |-> -1, why |-> "no_free_inode"]
    ELSE IF ~disk_fails(fs.disk, i, c, F)
    THEN [im |-> image[fs.disk], ret |-> -1,
          why |-> IF c = 1 THEN "read_succeeded" ELSE "later_read_succeeded"]
    ELSE LET free == {j \in 0 .. (INODES_PER_BLOCK - 1) : ValidOf(blk, j) = 0} IN
         IF free = {} THEN CreateFrom(i + 1, c + 1, F, blk)
         ELSE LET j == CHOOSE x \in free : \A y \in free : x <= y IN
              IF disk_fails(fs.disk, i, c + 1, F)
              THEN [im |-> image[fs.disk], ret |-> -1, why |-> "write_failed"]
              ELSE [im |-> [image[fs.disk] EXCEPT
                               ![i] = SetWord(blk, INODE_WORDS * j, 1)],
                    ret |-> (i - 1) * INODES_PER_BLOCK + j,
                    why |-> "created"]

\* fs_create(fs): blk is what the uninitialised stack Block holds
fs_create(F, blk) ==
    /\ pc = "running"
    /\ IF fs.disk = NULL
       THEN /\ pc' = "aborted"
            /\ last' = Abort("create", NULL, -1, "assert_disk")
            /\ UNCHANGED image
       ELSE \E r \in {CreateFrom(1, 1, F, blk)} :
              /\ image' = [image EXCEPT ![fs.disk] = r.im]
              /\ last' = Call("create", fs.disk, -1, r.ret, FALSE, r.why)
              /\ pc' = pc
    /\ UNCHANGED <<disk, fs, heap, formatted>>
    /\ before' = image

(* ------------------------------------------------------------------ *)
(* fs_load_inode and fs_save_inode                                     *)
(* ------------------------------------------------------------------ *)
\* An Inode*: NULL, a pointer that was never set, or the address of an Inode
NullPtr == [kind |-> "null"]
WildPtr == [kind |-> "wild"]
PtrTo(in) == [kind |-> "heap", obj |-> in]

\* the block fs_load_inode and fs_save_inode read for an inode number
InodeBlockOf(inode_number) == inode_number \div INODES_PER_BLOCK

\* the slot in that block
InodeSlotOf(inode_number) ==
    inode_number - INODES_PER_BLOCK * InodeBlockOf(inode_number)

\* fs_load_inode(fs, inode_number, node), call number c.  node is the
\* function's own copy of the caller's pointer: line 352 assigns to that
\* copy, so the caller's pointer is after the call what it was before it
\* (caller), and the Inode of line 352 is named by nothing (copy).
fs_load_inode(inode_number, node, c, F) ==
    IF fs.disk = NULL
    THEN [abort |-> TRUE, res |-> FALSE, why |-> "assert_disk", caller |-> node]
    ELSE IF node.kind # "null"
    THEN [abort |-> TRUE, res |-> FALSE, why |-> "assert_node", caller |-> node]
    ELSE IF disk_fails(fs.disk, InodeBlockOf(inode_number), c, F)
    THEN [abort |-> FALSE, res |-> FALSE, why |-> "read_failed", caller |-> node]
    ELSE IF ValidOf(image[fs.disk][InodeBlockOf(inode_number)],
                    InodeSlotOf(inode_number)) = 0
    THEN [abort |-> FALSE, res |-> FALSE, why |-> "not_valid", caller |-> node]
    ELSE [abort |-> FALSE, res |-> TRUE, why |-> "loaded", caller |-> node,
          copy |-> InodeOf(image[fs.disk][InodeBlockOf(inode_number)],
                           InodeSlotOf(inode_number))]

\* fs_save_inode(fs, inode_number, node) on image im, call numbers c, c + 1
fs_save_inode(im, inode_number, in, c, F) ==
    IF disk_fails(fs.disk, InodeBlockOf(inode_number), c, F)
    THEN [im |-> im, res |-> FALSE]
    ELSE IF disk_fails(fs.disk, InodeBlockOf(inode_number), c + 1, F)
    THEN [im |-> im, res |-> FALSE]
    ELSE [im |-> [im EXCEPT ![InodeBlockOf(inode_number)] =
                     WithInode(im[InodeBlockOf(inode_number)],
                               InodeSlotOf(inode_number), in)],
          res |-> TRUE]

(* ------------------------------------------------------------------ *)
(* fs_remove                                                           *)
(* ------------------------------------------------------------------ *)
\* a > b for two uint32_t given as int32 bit patterns
GtU32(a, b) == IF (a < 0) = (b < 0) THEN a > b ELSE a < 0

\* the index of fs->free_blocks that lines 236 and 254 store false at for
\* block number num
RemoveIndex(num) == num
\* fs->free_blocks[num] = false; for a block released
RemoveMark == FALSE

\* lines 231-262 once in points to an Inode, call numbers from c: the
\* indices freed are those of the non-zero direct pointers and, for a file
\* larger than the direct blocks, of the non-zero entries of the indirect
\* block; the inode is saved with valid, the direct pointers and indirect
\* cleared (size is left as it was)
RemoveRest(in, inode_number, c, F) ==
    LET direct == {in.direct[i] : i \in {k \in 0 .. (POINTERS_PER_INODE - 1) :
                                            in.direct[k] # 0}}
        big == GtU32(in.size, BLOCK_SIZE * POINTERS_PER_INODE)
        entries == IF big /\ ~disk_fails(fs.disk, in.indirect, c, F)
                   THEN {Word(image[fs.disk][in.indirect], w) :
                            w \in {x \in 0 .. (POINTERS_PER_BLOCK - 1) :
                                      Word(image[fs.disk][in.indirect], x) # 0}}
                   ELSE {}
        freed == {RemoveIndex(num) : num \in direct \cup entries}
        arr == heap[fs.free_blocks].arr
        hp == [heap EXCEPT ![fs.free_blocks].arr =
                  [idx \in DOMAIN arr |-> IF idx \in freed THEN FALSE ELSE arr[idx]]]
        cleared == [valid |-> 0, size |-> in.size, direct |-> NoDirect, indirect |-> 0]
        saved == fs_save_inode(image[fs.disk], inode_number, cleared,
                               IF big THEN c + 1 ELSE c, F)
    IN  IF big /\ in.indirect = 0
        THEN [abort |-> TRUE, why |-> "assert_indirect", oob |-> FALSE,
              heap |-> heap, im |-> image[fs.disk], ret |-> FALSE]
        ELSE IF big /\ disk_fails(fs.disk, in.indirect, c, F)
        THEN [abort |-> FALSE, why |-> "read_indirect",
              oob |-> \E idx \in freed : idx \notin DOMAIN arr,
              heap |-> hp, im |-> image[fs.disk], ret |-> FALSE]
        ELSE [abort |-> FALSE, why |-> IF saved.res THEN "removed" ELSE "save_failed",
              oob |-> \E idx \in freed : idx \notin DOMAIN arr,
              heap |-> hp, im |-> saved.im, ret |-> saved.res]

\* fs_remove(fs, inode_number).  in is NULL at line 225 and still NULL
\* after fs_load_inode, so line 233 reads through a NULL pointer whenever
\* the load succeeds.  A store outside the bitmap is undefined, as in
\* fs_mount.
fs_remove(inode_number, F) ==
    /\ pc = "running"
    /\ \E l \in {fs_load_inode(inode_number, NullPtr, 1, F)} :
         IF l.abort
         THEN /\ pc' = "aborted"
              /\ last' = Abort("remove", fs.disk, inode_number, l.why)
              /\ UNCHANGED <<image, heap>>
         ELSE IF ~l.res
         THEN /\ last' = Call("remove", fs.disk, inode_number, 0, FALSE, l.why)
              /\ UNCHANGED <<image, heap, pc>>
         ELSE IF l.caller.kind # "heap"
         THEN /\ pc' = "aborted"
              /\ last' = Abort("remove", fs.disk, inode_number, "null_dereference")
              /\ UNCHANGED <<image, heap>>
         ELSE \E r \in {RemoveRest(l.caller.obj, inode_number, 2, F)} :
                \/ /\ r.abort \/ r.oob
                   /\ pc' = "aborted"
                   /\ last' = Abort("remove", fs.disk, inode_number, r.why)
                   /\ UNCHANGED <<image, heap>>
                \/ /\ ~r.abort
                   /\ image' = [image EXCEPT ![fs.disk] = r.im]
                   /\ heap' = r.heap
                   /\ last' = Call("remove", fs.disk, inode_number, 0, r.ret, r.why)
                   /\ pc' = pc
    /\ UNCHANGED <<disk, fs, formatted>>
    /\ before' = image

(* ------------------------------------------------------------------ *)
(* fs_stat, fs_read, fs_write                                          *)
(* ------------------------------------------------------------------ *)
\* what a pointer declared without an initialiser may hold
UnsetPtrs == {NullPtr, WildPtr}

\* fs_stat(fs, inode_number), read as its text intends (line 279 declares
\* res a second time).  in is whatever the stack held; fs_load_inode
\* asserts that it is NULL and leaves it as it is, so line 279 reads
\* through a NULL pointer whenever the load succeeds.
StatOutcome(inode_number, F, in) ==
    LET l == fs_load_inode(inode_number, in, 1, F) IN
    IF l.abort THEN [abort |-> TRUE, ret |-> 0, why |-> l.why]
    ELSE IF ~l.res THEN [abort |-> FALSE, ret |-> -1, why |-> l.why]
    ELSE IF l.caller.kind # "heap"
    THEN [abort |-> TRUE, ret |-> 0, why |-> "null_dereference"]
    ELSE [abort |-> FALSE, ret |-> l.caller.obj.size, why |-> l.why]

fs_stat(inode_number, F, in) ==
    /\ pc = "running"
    /\ \E r \in {StatOutcome(inode_number, F, in)} :
         IF r.abort
         THEN /\ pc' = "aborted"
              /\ last' = Abort("stat", fs.disk, inode_number, r.why)
         ELSE /\ last' = Call("stat", fs.disk, inode_number, r.ret, FALSE, r.why)
              /\ pc' = pc
    /\ UNCHANGED <<disk, image, fs, heap, formatted>>
    /\ before' = image

\* fs_read(fs, inode_number, data, length, offset), read as its text
\* intends (the loop of lines 308-310 has no body): -1 on every path
\* whatever length and offset are, and no byte of data is written
fs_read(inode_number, F, in) ==
    /\ pc = "running"
    /\ \E l \in {fs_load_inode(inode_number, in, 1, F)} :
         IF l.abort
         THEN /\ pc' = "aborted"
              /\ last' = Abort("read", fs.disk, inode_number, l.why)
         ELSE /\ last' = Call("read", fs.disk, inode_number, -1, FALSE, l.why)
              /\ pc' = pc
    /\ UNCHANGED <<disk, image, fs, heap, formatted>>
    /\ before' = image

\* fs_write(fs, inode_number, data, length, offset)
fs_write(inode_number, length) ==
    /\ pc = "running"
    /\ last' = [Call("write", fs.disk, inode_number, -1, FALSE, "stub")
                   EXCEPT !.len = length]
    /\ UNCHANGED <<disk, image, fs, heap, pc, formatted>>
    /\ before' = image

\* lengths the callers pass, with offset 0
Lengths == {5, BLOCK_SIZE * POINTERS_PER_INODE + 1}

Next ==
    \/ \E d \in Disks, F \in FaultSets, pad \in GarbageBlocks : fs_format(d, F, pad)
    \/ \E d \in Disks, F \in FaultSets : fs_mount(d, F)
    \/ fs_unmount
    \/ \E d \in Disks, F \in OneFault : fs_debug(d, F)
    \/ \E F \in FaultSets, blk \in GarbageBlocks : fs_create(F, blk)
    \/ \E n \in InodeArgs, F \in OneFault : fs_remove(n, F)
    \/ \E n \in InodeArgs, F \in OneFault, in \in UnsetPtrs : fs_stat(n, F, in)
    \/ \E n \in InodeArgs, F \in OneFault, in \in UnsetPtrs : fs_read(n, F, in)
    \/ \E n \in InodeArgs, len \in Lengths : fs_write(n, len)

Spec == Init /\ [][Next]_vars

(* ================================================================== *)
(* What the specification says of the layout, used to state the claims *)
(* ================================================================== *)
\* the handle holds a device and a bitmap
HoldsFileSystem ==
    /\ fs.disk # NULL
    /\ fs.free_blocks \in Addrs
    /\ heap[fs.free_blocks].live

\* the handle is mounted and the process runs
Mounted == pc = "running" /\ HoldsFileSystem

\* the record of inode n where the layout puts it: block 1 + n/128, slot
\* n mod 128
RecordBlock(n) == 1 + (n \div INODES_PER_BLOCK)
RecordOf(d, n) == InodeOf(image[d][RecordBlock(n)], n % INODES_PER_BLOCK)
HasRecord(d, n) ==
    /\ n >= 0
    /\ n < SuperOf(image[d][0]).inodes
    /\ RecordBlock(n) \in DOMAIN image[d]

FreshInode == [valid |-> 1, size |-> 0, direct |-> NoDirect, indirect |-> 0]
FreeInode == [valid |-> 0, size |-> 0, direct |-> NoDirect, indirect |-> 0]

\* the inode numbers whose valid field is 0, over inode blocks 1..inode_blocks
FreeSlots(d) ==
    {(i - 1) * INODES_PER_BLOCK + j :
        <<i, j>> \in {t \in (1 .. SuperOf(image[d][0]).inode_blocks)
                             \X (0 .. (INODES_PER_BLOCK - 1)) :
                         /\ t[1] \in DOMAIN image[d]
                         /\ ValidOf(image[d][t[1]], t[2]) = 0}}

\* the blocks an inode references: its non-zero direct pointers and, for a
\* file larger than the direct blocks, the indirect block and its non-zero
\* entries
RefsOf(d, in) ==
    {in.direct[k] : k \in {x \in 0 .. (POINTERS_PER_INODE - 1) : in.direct[x] # 0}}
    \cup (IF in.size > BLOCK_SIZE * POINTERS_PER_INODE /\ in.indirect \in DOMAIN image[d]
          THEN {in.indirect}
               \cup {Word(image[d][in.indirect], w) :
                        w \in {x \in 0 .. (POINTERS_PER_BLOCK - 1) :
                                  Word(image[d][in.indirect], x) # 0}}
          ELSE {})

\* block b is marked free in the bitmap of the handle, the bitmap read as
\* fs_initialize_free_block_bitmap writes it
MarkedFree(hp, f, b) ==
    /\ f.free_blocks \in Addrs
    /\ hp[f.free_blocks].live
    /\ (b - 1 - f.meta_data.inode_blocks) \in DOMAIN hp[f.free_blocks].arr
    /\ ~hp[f.free_blocks].arr[b - 1 - f.meta_data.inode_blocks]

(* ================================================================== *)
(* Claims                                                              *)
(* ================================================================== *)

C8_ResultTellsSuccess ==
    /\ last.op = "format" => (last.ok <=> last.why = "done")
    /\ (last.op = "mount" /\ pc = "running") => (last.ok <=> last.why = "done")

\* C7: a mount of an unmounted handle that fails (block 0 unreadable, wrong
\* magic number, or an inode block unreadable while the bitmap is built)
\* reports failure and leaves the handle with no device, the superblock
\* copy it had and no bitmap.
C7_FailedMountLeavesUnmounted ==
    [][(/\ pc = "running" /\ pc' = "running"
        /\ fs.disk = NULL
        /\ last'.op = "mount"
        /\ last'.why \in {"read_super", "bad_magic", "bitmap_read"}) =>
           /\ ~last'.ok
           /\ fs'.disk = NULL
           /\ fs'.meta_data = fs.meta_data
           /\ fs'.free_blocks = NULL \/ ~heap'[fs'.free_blocks].live
      ]_vars

\* C10: fs_mount on a handle that holds a device reports failure and leaves
\* the device reference, the superblock copy and the bitmap as they were.
C10_SecondMountRefused ==
    [][(Mounted /\ pc' = "running" /\ last'.op = "mount") =>
           /\ ~last'.ok
           /\ fs' = fs
           /\ heap' = heap
      ]_vars

\* the lowest inode number whose valid field is 0
LowestFree(d) == CHOOSE n \in FreeSlots(d) : \A m \in FreeSlots(d) : n <= m

\* C1: on a mounted file system with a free inode slot and no device
\* failure, fs_create returns the lowest inode number whose valid field is
\* 0, and the record of that inode is then valid with size 0, no direct
\* pointer and no indirect pointer.
C1_CreateLowestFree ==
    [][(/\ Mounted
        /\ fs.meta_data = SuperOf(image[fs.disk][0])
        /\ FreeSlots(fs.disk) # {}
        /\ last'.op = "create"
        /\ last'.why \in {"read_succeeded", "no_free_inode"}) =>
           /\ pc' = "running"
           /\ last'.ret = LowestFree(fs.disk)
           /\ InodeOf(image'[fs.disk][RecordBlock(LowestFree(fs.disk))],
                      LowestFree(fs.disk) % INODES_PER_BLOCK) = FreshInode
      ]_vars

\* C2: on a mounted file system, fs_stat(n) for an inode whose record (slot
\* n mod 128 of block 1 + n/128) is valid returns the size field of that
\* record, when the read of the block did not fail.
C2_StatReturnsSize ==
    (/\ last.op = "stat"
     /\ HoldsFileSystem
     /\ HasRecord(fs.disk, last.n)
     /\ RecordOf(fs.disk, last.n).valid = 1
     /\ last.why \notin {"read_failed", "assert_node"}) =>
        /\ pc = "running"
        /\ last.ret = RecordOf(fs.disk, last.n).size

\* C3: fs_remove(n) of a valid inode on a mounted file system succeeds;
\* afterwards the record of n is not valid, fs_stat(n) reports failure, and
\* every block the inode referenced is marked free in the bitmap.
C3_RemoveFreesInode ==
    [][(/\ Mounted
        /\ last'.op = "remove"
        /\ HasRecord(fs.disk, last'.n)
        /\ RecordOf(fs.disk, last'.n).valid = 1
        /\ last'.why # "read_failed") =>
           /\ pc' = "running"
           /\ last'.ok
           /\ InodeOf(image'[fs.disk][RecordBlock(last'.n)],
                      last'.n % INODES_PER_BLOCK).valid = 0
           /\ \A b \in RefsOf(fs.disk, RecordOf(fs.disk, last'.n)) :
                 MarkedFree(heap', fs', b)
      ]_vars

\* the blocks of the data region that no valid inode references
FreeDataBlocks(d) ==
    ((SuperOf(image[d][0]).inode_blocks + 1) .. (disk[d].blocks - 1))
    \ UNION {RefsOf(d, RecordOf(d, n)) :
                n \in {m \in 0 .. (SuperOf(image[d][0]).inodes - 1) :
                          HasRecord(d, m) /\ RecordOf(d, m).valid = 1}}

\* the blocks a write of len bytes at offset 0 has to allocate for inode in
NewBlocksNeeded(d, in, len) ==
    LET k == (len + BLOCK_SIZE - 1) \div BLOCK_SIZE
        has_indirect == in.indirect \in DOMAIN image[d] /\ in.indirect # 0
    IN  Cardinality({lb \in 0 .. (k - 1) :
                        IF lb < POINTERS_PER_INODE
                        THEN in.direct[lb] = 0
                        ELSE \/ ~has_indirect
                             \/ Word(image[d][in.indirect], lb - POINTERS_PER_INODE) = 0})
        + (IF k > POINTERS_PER_INODE /\ ~has_indirect THEN 1 ELSE 0)

\* C4: on a mounted file system, fs_write(n, s, L, 0) on a valid inode that
\* needs no more new blocks than there are free ones returns L, and the
\* fs_read of the same inode that follows it returns L as well.
C4_WriteReadRoundTrip ==
    [][(/\ Mounted /\ pc' = "running"
        /\ last.op = "write"
        /\ HasRecord(fs.disk, last.n)
        /\ RecordOf(fs.disk, last.n).valid = 1
        /\ NewBlocksNeeded(fs.disk, RecordOf(fs.disk, last.n), last.len)
              <= Cardinality(FreeDataBlocks(fs.disk))
        /\ last'.op = "read"
        /\ last'.n = last.n
        /\ last'.why # "read_failed") =>
           /\ last.ret = last.len
           /\ last'.ret = last.len
      ]_vars

\* what the debug walk lists: number, size and direct-pointer count of
\* every valid inode
Listed(d) == DebugOutput(d, {}).inodes

\* C5: fs_unmount followed by fs_mount of the same formatted device leaves
\* the set of valid inodes with their sizes and pointers as the debug walk
\* lists it unchanged, and afterwards fs_stat of each listed inode returns
\* its size.
C5_RemountKeepsInodes ==
    [][/\ (last'.op = "unmount" /\ pc' = "running") =>
             \A d \in Disks : Listed(d)' = Listed(d)
       /\ \A d \in formatted :
             (/\ last.op = "unmount" /\ pc = "running"
              /\ last'.op = "mount" /\ last'.d = d
              /\ last'.why = "done" /\ pc' = "running") =>
                /\ Listed(d)' = Listed(d)
                /\ \A t \in Listed(d) :
                      StatOutcome(t[1], {}, NullPtr)'
                         = [abort |-> FALSE, ret |-> t[2], why |-> "loaded"]
      ]_vars

\* C6: on a mounted, formatted file system the bitmap the handle holds
\* equals the bitmap a fresh mount of the same device would build.
C6_BitmapMatchesRebuild ==
    (Mounted /\ fs.disk \in formatted) =>
        heap[fs.free_blocks].arr
           = BuildBitmap(fs.disk, SuperOf(image[fs.disk][0]), 2, {}).arr

\* the calls that answer with an ssize_t (-1 is the error value)
SizeCalls == {"create", "stat", "read", "write"}

\* C11: unmount, create, remove, stat, read or write on a handle that holds
\* no device returns the error value (-1, or false for remove), makes no
\* device call and leaves the handle and its bitmap as they were; the
\* process goes on, also at a second unmount.
C11_UnmountedCallsRefused ==
    [][(/\ pc = "running"
        /\ fs.disk = NULL
        /\ last'.op \in SizeCalls \cup {"remove", "unmount"}) =>
           /\ pc' = "running"
           /\ last'.op \in SizeCalls => last'.ret = -1
           /\ ~last'.ok
           /\ fs' = fs
           /\ heap' = heap
           /\ image' = image
      ]_vars

\* the record of inode n is absent: n is out of range, or its valid field
\* is 0
NoSuchInode(n) ==
    \/ n >= fs.meta_data.inodes
    \/ ~HasRecord(fs.disk, n)
    \/ RecordOf(fs.disk, n).valid = 0

\* C12: on a mounted file system stat, remove, read and write of an inode
\* number that is out of range or whose record has valid = 0 return the
\* error value (-1, or false for remove) and leave every block of the
\* device and the bitmap as they were, when no device call failed.
C12_AbsentInodeNotFound ==
    [][(/\ Mounted
        /\ last'.op \in {"stat", "remove", "read", "write"}
        /\ NoSuchInode(last'.n)
        /\ last'.why \notin {"read_failed", "assert_node"}) =>
           /\ pc' = "running"
           /\ last'.op # "remove" => last'.ret = -1
           /\ ~last'.ok
           /\ image' = image
           /\ heap' = heap
      ]_vars

\* C13: block 0 of a formatted device holds the superblock fs_format wrote
\* (the magic number, the block count, the inode block count and the inode
\* count), and no call other than fs_format changes block 0.
C13_SuperblockKept ==
    \A d \in Disks :
       /\ d \in formatted =>
             /\ SuperOf(image[d][0]).magic_number = MAGIC_NUMBER
             /\ SuperOf(image[d][0]).blocks = disk[d].blocks
             /\ 10 * SuperOf(image[d][0]).inode_blocks >= disk[d].blocks
             /\ 10 * (SuperOf(image[d][0]).inode_blocks - 1) < disk[d].blocks
             /\ SuperOf(image[d][0]).inodes
                   = INODES_PER_BLOCK * SuperOf(image[d][0]).inode_blocks
       /\ last.op \notin {"format", "none"} => image[d][0] = before[d][0]

\* C13 witness: on a formatted and mounted device fs_create has written an
\* inode block
C13_Witness ==
    /\ Mounted
    /\ fs.disk \in formatted
    /\ last.op = "create"
    /\ last.why = "created"

\* C14: on a mounted file system whose data region has k free blocks,
\* fs_write of more than k * 4096 bytes at offset 0 to a valid inode with
\* size 0 and no pointer returns exactly k * 4096.
C14_WriteStopsWhenFull ==
    (/\ Mounted
     /\ last.op = "write"
     /\ HasRecord(fs.disk, last.n)
     /\ RecordOf(fs.disk, last.n) = FreshInode
     /\ last.len > BLOCK_SIZE * Cardinality(FreeDataBlocks(fs.disk))) =>
        last.ret = BLOCK_SIZE * Cardinality(FreeDataBlocks(fs.disk))

(* ------------------------------------------------------------------ *)
(* The disk emulator on its own: disk_read and disk_write called        *)
(* directly with any handle, block number and buffer.  The handle is    *)
(* the caller's: NULL, a Disk whose descriptor is negative, or an open  *)
(* Disk.                                                                *)
(* ------------------------------------------------------------------ *)
MaxDiskBlocks == 2
DiskBlockCounts == 1 .. MaxDiskBlocks
Descriptors == {-1, 4}
Handles == {NULL} \cup Disks
DataPtrs == {NULL, StackBuffer}
IoOutcomes == {"ok", "seek_failed", "io_failed"}
BlockArgs == 0 .. MaxDiskBlocks + 1

DiskCall(op, d, block, data, held, buf, ret, sys, why) ==
    [op |-> op, d |-> d, n |-> block, data |-> data, held |-> held, buf |-> buf,
     ret |-> ret, sys |-> sys, why |-> why]

DiskInit ==
    /\ \E n \in DiskBlockCounts, f \in Descriptors :
         /\ disk = [d \in Disks |-> [fd |-> f, blocks |-> n, reads |-> 0, writes |-> 0]]
         /\ \E im \in Images(n) : image = [d \in Disks |-> im]
    /\ fs = [disk |-> NULL, meta_data |-> ZeroSuper, free_blocks |-> NULL]
    /\ heap = [a \in Addrs |-> [live |-> FALSE, arr |-> NoArray]]
    /\ last = DiskCall("none", NULL, 0, NULL, ZeroBlock, ZeroBlock, 0, 0, "")
    /\ pc = "running"
    /\ formatted = {}
    /\ before = image

\* held is what the caller's buffer holds before the call, buf what it holds
\* after; sys counts the system calls made on the descriptor
disk_read(d, block, data, held, io) ==
    /\ pc = "running"
    /\ last' = IF ~disk_sanity_check(d, block, data)
               THEN DiskCall("disk_read", d, block, data, held, held, DISK_FAILURE, 0, "sanity")
               ELSE IF io = "seek_failed"
               THEN DiskCall("disk_read", d, block, data, held, held, DISK_FAILURE, 1, io)
               ELSE IF io = "io_failed"
               THEN DiskCall("disk_read", d, block, data, held, held, -1, 2, io)
               ELSE DiskCall("disk_read", d, block, data, held, image[d][block],
                             BLOCK_SIZE, 2, io)
    /\ before' = image
    /\ UNCHANGED <<disk, image, fs, heap, pc, formatted>>

disk_write(d, block, data, held, io) ==
    /\ pc = "running"
    /\ \E ok \in {disk_sanity_check(d, block, data)} :
         /\ last' = IF ~ok
                    THEN DiskCall("disk_write", d, block, data, held, held, DISK_FAILURE, 0, "sanity")
                    ELSE IF io = "seek_failed"
                    THEN DiskCall("disk_write", d, block, data, held, held, DISK_FAILURE, 1, io)
                    ELSE IF io = "io_failed"
                    THEN DiskCall("disk_write", d, block, data, held, held, -1, 2, io)
                    ELSE DiskCall("disk_write", d, block, data, held, held, BLOCK_SIZE, 2, io)
         /\ image' = IF ok /\ io = "ok"
                     THEN [image EXCEPT ![d][block] = held]
                     ELSE image
    /\ before' = image
    /\ UNCHANGED <<disk, fs, heap, pc, formatted>>

DiskNext ==
    \/ \E d \in Handles, block \in BlockArgs, data \in DataPtrs,
          held \in GarbageBlocks, io \in IoOutcomes :
            disk_read(d, block, data, held, io)
    \/ \E d \in Handles, block \in BlockArgs, data \in DataPtrs,
          held \in GarbageBlocks, io \in IoOutcomes :
            disk_write(d, block, data, held, io)

SpecDisk == DiskInit /\ [][DiskNext]_vars

DiskCalls == {"disk_read", "disk_write"}

BadArguments ==
    \/ last.d = NULL
    \/ disk[last.d].fd < 0
    \/ last.n >= disk[last.d].blocks
    \/ last.data = NULL

\* C15: a disk_read or disk_write called with a NULL handle, a negative
\* descriptor, a block number >= blocks or a NULL buffer returns
\* DISK_FAILURE, makes no system call, and leaves both the device and the
\* caller's buffer as they were.
C15_BadArgumentsRefused ==
    (last.op \in DiskCalls /\ BadArguments) =>
        /\ last.ret = DISK_FAILURE
        /\ last.sys = 0
        /\ image = before
        /\ last.buf = last.held

\* C15 witness: a write with a NULL buffer to a block that exists on an
\* open disk was refused.
C15_Witness ==
    /\ last.op = "disk_write"
    /\ last.data = NULL
    /\ last.d # NULL
    /\ disk[last.d].fd >= 0
    /\ last.n < disk[last.d].blocks
    /\ last.ret = DISK_FAILURE

\* C16: every disk_read that returns BLOCK_SIZE raises the disk's reads
\* counter by one, every disk_write that returns BLOCK_SIZE raises writes
\* by one, and no other call changes either counter.
C16_CountersCountCalls ==
    [][\A d \in Disks :
         /\ disk'[d].reads = disk[d].reads +
               (IF last'.op = "disk_read" /\ last'.d = d /\ last'.ret = BLOCK_SIZE
                THEN 1 ELSE 0)
         /\ disk'[d].writes = disk[d].writes +
               (IF last'.op = "disk_write" /\ last'.d = d /\ last'.ret = BLOCK_SIZE
                THEN 1 ELSE 0)]_vars

\* the places where inode in holds a non-zero pointer, each with the pointer
PointerSlots(d, in) ==
    {<<"direct", k, in.direct[k]>> :
        k \in {x \in 0 .. (POINTERS_PER_INODE - 1) : in.direct[x] # 0}}
    \cup (IF in.size > BLOCK_SIZE * POINTERS_PER_INODE /\ in.indirect # 0
          THEN {<<"indirect", 0, in.indirect>>}
               \cup (IF in.indirect \in DOMAIN image[d]
                     THEN {<<"entry", w, Word(image[d][in.indirect], w)>> :
                              w \in {x \in 0 .. (POINTERS_PER_BLOCK - 1) :
                                        Word(image[d][in.indirect], x) # 0}}
                     ELSE {})
          ELSE {})

ValidInodes(d) ==
    {n \in 0 .. (SuperOf(image[d][0]).inodes - 1) :
        HasRecord(d, n) /\ RecordOf(d, n).valid = 1}

\* C17: on a device that was formatted and then mounted, after a call that
\* succeeded every non-zero pointer P of a valid inode has
\* inode_blocks < P < blocks, no inode holds a block twice and no two
\* inodes hold the same block.
C17_PointersInRangeAndUnshared ==
    (/\ Mounted
     /\ fs.disk \in formatted
     /\ last.why \in {"done", "created"}) =>
        /\ \A n \in ValidInodes(fs.disk) :
              \A s, t \in PointerSlots(fs.disk, RecordOf(fs.disk, n)) :
                 /\ s[3] > fs.meta_data.inode_blocks
                 /\ s[3] < fs.meta_data.blocks
                 /\ s # t => s[3] # t[3]
        /\ \A n, m \in ValidInodes(fs.disk) :
              n # m => PointerSlots(fs.disk, RecordOf(fs.disk, n))
                          \cap PointerSlots(fs.disk, RecordOf(fs.disk, m)) = {}
                       /\ RefsOf(fs.disk, RecordOf(fs.disk, n))
                          \cap RefsOf(fs.disk, RecordOf(fs.disk, m)) = {}

\* block b counts as allocated in the bitmap of handle f: the superblock and
\* the inode table have no entry of their own and are never handed out
MarkedAllocated(hp, f, b) ==
    \/ b <= f.meta_data.inode_blocks
    \/ /\ (b - 1 - f.meta_data.inode_blocks) \in DOMAIN hp[f.free_blocks].arr
       /\ hp[f.free_blocks].arr[b - 1 - f.meta_data.inode_blocks]

ReferencedBlocks(d) == UNION {RefsOf(d, RecordOf(d, n)) : n \in ValidInodes(d)}

\* C18: right after a mount that succeeded, the bitmap marks block b
\* allocated exactly when b <= inode_blocks or a valid inode references b
\* (a non-zero direct pointer, or for size > 5 * 4096 the indirect block or
\* a non-zero entry of it), for every b in 0 .. blocks - 1.
C18_MountBuildsBitmap ==
    (/\ Mounted
     /\ last.op = "mount"
     /\ last.why = "done") =>
        \A b \in 0 .. (fs.meta_data.blocks - 1) :
           MarkedAllocated(heap, fs, b) <=>
              (b <= fs.meta_data.inode_blocks \/ b \in ReferencedBlocks(fs.disk))

\* the inode records of d, by inode number, as the image im holds them
RecordsIn(d, im) ==
    [n \in {m \in 0 .. (SuperOf(image[d][0]).inodes - 1) : HasRecord(d, m)} |->
        InodeOf(im[RecordBlock(n)], n % INODES_PER_BLOCK)]

\* the inode a create or remove call was about
TargetOf(call) == IF call.op = "create" THEN call.ret ELSE call.n

\* C19: a fs_create or fs_remove call on a mounted file system leaves the
\* superblock, every block of the data region and every inode record other
\* than the one it targets with the bytes they had before the call.
C19_OnlyTargetRecordChanges ==
    (/\ Mounted
     /\ last.op \in {"create", "remove"}) =>
        /\ image[fs.disk][0] = before[fs.disk][0]
        /\ \A b \in DOMAIN image[fs.disk] :
              b > fs.meta_data.inode_blocks => image[fs.disk][b] = before[fs.disk][b]
        /\ \A n \in DOMAIN RecordsIn(fs.disk, image[fs.disk]) :
              n # TargetOf(last) =>
                 RecordsIn(fs.disk, image[fs.disk])[n] = RecordsIn(fs.disk, before[fs.disk])[n]

\* C20: on a mounted file system, for every block number P with
\* inode_blocks < P < blocks, the index fs_initialize_free_block_bitmap uses
\* for P and the index fs_remove uses for P both lie inside the array the
\* mount allocated and are the same index, and the value the mount stores
\* for a block in use is the opposite of the value fs_remove stores for a
\* block it releases.
C20_OneBitmapConvention ==
    Mounted =>
        /\ RemoveMark = ~MountMark
        /\ \A P \in (fs.meta_data.inode_blocks + 1) .. (fs.meta_data.blocks - 1) :
              /\ MountIndex(fs.meta_data, P) \in DOMAIN heap[fs.free_blocks].arr
              /\ RemoveIndex(P) \in DOMAIN heap[fs.free_blocks].arr
              /\ RemoveIndex(P) = MountIndex(fs.meta_data, P)

====
